---- MODULE Spec2Model ----
(***************************************************************************)
(* Cosmic Queries: the request/state lifecycle of App.tsx                  *)
(* (handleGenerateFact, the mount effect, the button, FactDisplay) and the *)
(* fact provider generatePhysicsFact of services/geminiService.            *)
(*                                                                         *)
(* A JavaScript string is a sequence of one-character strings; an error    *)
(* message is a sequence of tokens (a fixed phrase of the source is one    *)
(* token), so that concatenation, trimming and truthiness are computed.    *)
(***************************************************************************)
EXTENDS Integers, Sequences, FiniteSets, TLC

\* ---------------------------------------------------------------- bounds
MaxLen == 3          \* longest response text the provider is given
MaxRefresh == 3      \* refresh() invocations in one run

\* ------------------------------------------------------------ JS values
Chars == {"a", " ", "\n"}
WhiteSpace == {" ", "\n"}

SeqsUpTo(S, n) == UNION {[1..k -> S] : k \in 0..n}

\* string | null (also string | undefined for response.text)
Null == [isNull |-> TRUE, s |-> <<>>]
Str(s) == [isNull |-> FALSE, s |-> s]

\* JS truthiness of a string | null | undefined value
Truthy(v) == ~v.isNull /\ Len(v.s) > 0

\* a thrown value: an Error with a message, or something that is not an Error
ErrorOf(m) == [isError |-> TRUE, message |-> m]
NonError == [isError |-> FALSE, message |-> <<>>]

\* String.prototype.trim
RECURSIVE TrimStart(_)
TrimStart(s) ==
  IF s = <<>> THEN s
  ELSE IF Head(s) \in WhiteSpace THEN TrimStart(Tail(s)) ELSE s

RECURSIVE TrimEnd(_)
TrimEnd(s) ==
  IF s = <<>> THEN s
  ELSE IF s[Len(s)] \in WhiteSpace THEN TrimEnd(SubSeq(s, 1, Len(s) - 1)) ELSE s

\* variant: trimStart() instead of trim()
Trim_StartOnly(s) == TrimStart(s)

Trim(s) == TrimEnd(TrimStart(s))

\* ------------------------------------------------------- fact provider
\* values process.env.API_KEY may have when the provider module is loaded
ApiKeys == {Null, Str(<<>>), Str(<<"k">>)}

\* variant: the module does not test the key
KeyMissing_Never(key) == FALSE

\* if (!API_KEY) throw new Error(...)
KeyMissing(key) == ~Truthy(key)

\* evaluation of the provider module, which App.tsx imports
ModuleLoad(key) == IF KeyMissing(key) THEN "failed" ELSE "running"

PROMPT == <<"Generate a single, mind-blowing, and concise physics fact. ...">>
Model == "gemini-2.5-flash-preview-04-17"

\* the argument of ai.models.generateContent
Request == [model |-> Model, contents |-> PROMPT]

\* variant: generatePhysicsFact sends the request twice
RequestsAfterStart_Twice(reqs) == Append(Append(reqs, Request), Request)

\* generatePhysicsFact issues its one call
RequestsAfterStart(reqs) == Append(reqs, Request)

NoContentMsg == <<"No content was returned from the API.">>
FailedPrefix == <<"Failed to generate fact from AI service: ">>
UnknownServiceMsg == <<"An unknown error occurred while communicating with the AI service.">>
UnknownMsg == <<"An unknown error occurred.">>

\* messages of the Errors ai.models.generateContent may reject with
UnderlyingMessages == {<<>>, <<"timeout">>}

\* how the awaited ai.models.generateContent call settles
Fulfil(text) == [settled |-> "fulfilled", text |-> text, thrown |-> NonError]
Reject(e) == [settled |-> "rejected", text |-> Null, thrown |-> e]

Responses ==
  {Fulfil(Null)} \cup {Fulfil(Str(s)) : s \in SeqsUpTo(Chars, MaxLen)}
    \cup {Reject(ErrorOf(m)) : m \in UnderlyingMessages} \cup {Reject(NonError)}

\* the result of the promise generatePhysicsFact returns
Returned(s) == [ok |-> TRUE, value |-> s, thrown |-> NonError]
Thrown(e) == [ok |-> FALSE, value |-> <<>>, thrown |-> e]

\* variant: the catch block rethrows the error it caught
ProviderCatch_Rethrow(e) == Thrown(e)

\* variant: the catch block always throws the generic message
ProviderCatch_Generic(e) == Thrown(ErrorOf(UnknownServiceMsg))

\* catch block of generatePhysicsFact
ProviderCatch(e) ==
  IF e.isError THEN Thrown(ErrorOf(FailedPrefix \o e.message))
  ELSE Thrown(ErrorOf(UnknownServiceMsg))

\* variant: only an absent payload is tested (text === undefined)
TextMissing_AbsentOnly(text) == text.isNull

\* the empty-payload test of generatePhysicsFact
TextMissing(text) == ~Truthy(text)

generatePhysicsFact(resp) ==
  IF resp.settled = "fulfilled"
  THEN IF TextMissing(resp.text)
       THEN ProviderCatch(ErrorOf(NoContentMsg))
       ELSE Returned(Trim(resp.text.s))
  ELSE ProviderCatch(resp.thrown)

\* --------------------------------------------------------- controller
VARIABLES
  fact,        \* useState<string | null>(null)
  isLoading,   \* useState<boolean>(true)
  error,       \* useState<string | null>(null)
  view,        \* the committed render: what FactDisplay and the button show,
               \* and the isLoading the current handleGenerateFact captured
  mounted,     \* the mount effect has run
  inflight,    \* the provider calls awaited and not yet settled: invocation
               \* number |-> the state its invocation found
  invoked,     \* number of handleGenerateFact invocations so far
  last,        \* the step just taken, with its pre-state
  requests,    \* the requests passed to ai.models.generateContent so far
  apiKey,      \* process.env.API_KEY
  startup,     \* "load": modules not yet evaluated; "failed": the provider
               \* module threw; "running": App is rendered
  lastSettled, \* the result of the most recent settlement, if any
  pending      \* renders React still owes for updates it did not batch

vars == <<fact, isLoading, error, view, mounted, inflight, invoked, last,
          requests, apiKey, startup, lastSettled, pending>>

env == <<apiKey, startup>>

cur == [fact |-> fact, isLoading |-> isLoading, error |-> error]

\* variant: useCallback(..., []) keeps the closure of the first render
Captured_Stale(v) == TRUE

\* the isLoading captured by the handleGenerateFact of render v
\* (useCallback re-creates it when isLoading changes)
Captured(v) == v.isLoading

\* what an invocation finds: the state, the calls still in flight and the
\* isLoading its closure captured
Found == [fact |-> fact, isLoading |-> isLoading, error |-> error,
          concurrent |-> DOMAIN inflight, captured |-> Captured(view)]

\* the invocations whose call has not settled
InFlight == DOMAIN inflight

\* variant: the start step never calls setIsLoading(true)
StartState_NoLoading(st, captured) ==
  [fact |-> st.fact, isLoading |-> st.isLoading, error |-> Null]

\* variant: the start step also clears fact
StartState_ClearsFact(st, captured) ==
  [fact |-> Null,
   isLoading |-> IF ~captured THEN TRUE ELSE st.isLoading,
   error |-> Null]

\* variant: the start step does not call setError(null)
StartState_KeepsError(st, captured) ==
  [fact |-> st.fact,
   isLoading |-> IF ~captured THEN TRUE ELSE st.isLoading,
   error |-> st.error]

\* handleGenerateFact up to the await; captured is the closure's isLoading
StartState(st, captured) ==
  [fact |-> st.fact,
   isLoading |-> IF ~captured THEN TRUE ELSE st.isLoading,
   error |-> Null]

\* catch block of handleGenerateFact: e instanceof Error ? e.message : ...
errorMessage(e) == IF e.isError THEN e.message ELSE UnknownMsg

\* variant: the catch block does not call setFact(null)
SettleState_KeepsFact(st, r) ==
  IF r.ok
  THEN [fact |-> Str(r.value), isLoading |-> FALSE, error |-> st.error]
  ELSE [fact |-> st.fact, isLoading |-> FALSE, error |-> Str(errorMessage(r.thrown))]

\* variant: setIsLoading(false) at the end of the try block, no finally
SettleState_NoFinally(st, r) ==
  IF r.ok
  THEN [fact |-> Str(r.value), isLoading |-> FALSE, error |-> st.error]
  ELSE [fact |-> Null, isLoading |-> st.isLoading, error |-> Str(errorMessage(r.thrown))]

\* variant: the catch block calls generatePhysicsFact again
RequestsAfterSettle_Retry(reqs, r) == IF r.ok THEN reqs ELSE Append(reqs, Request)

\* neither catch block issues a call
RequestsAfterSettle(reqs, r) == reqs

\* handleGenerateFact after the await: try / catch / finally
SettleState(st, r) ==
  IF r.ok
  THEN [fact |-> Str(r.value), isLoading |-> FALSE, error |-> st.error]
  ELSE [fact |-> Null, isLoading |-> FALSE, error |-> Str(errorMessage(r.thrown))]

\* variant: every setState of the continuation is rendered on its own
IntermediateRenders_Unbatched(st, r) ==
  IF r.ok
  THEN <<[st EXCEPT !.fact = Str(r.value)]>>
  ELSE <<[st EXCEPT !.error = Str(errorMessage(r.thrown))],
         [st EXCEPT !.error = Str(errorMessage(r.thrown)), !.fact = Null]>>

\* the states rendered between the setState calls of one continuation:
\* none, React batches them into one render
IntermediateRenders(st, r) == <<>>

\* const isCardLoading = isLoading && !fact && !error
isCardLoading(st) == st.isLoading /\ ~Truthy(st.fact) /\ ~Truthy(st.error)

\* what FactDisplay renders from the props App passes it
FactDisplay(st) ==
  IF isCardLoading(st) THEN "spinner"
  ELSE IF Truthy(st.error) THEN "error"
  ELSE "fact"

\* variant: disabled={!isLoading}
ButtonDisabled_Inverted(st) == ~st.isLoading

\* variant: the button has no disabled attribute
ButtonDisabled_Never(st) == FALSE

\* variant: disabled={true}
ButtonDisabled_Always(st) == TRUE

\* <button disabled={isLoading}>
ButtonDisabled(st) == st.isLoading

\* {isLoading ? 'Summoning a Fact...' : 'Reveal New Fact'}
ButtonLabel(st) == IF st.isLoading THEN "Summoning a Fact..." ELSE "Reveal New Fact"

NoStep == [op |-> "init", call |-> 0, resp |-> Fulfil(Null),
           result |-> Returned(<<>>), pre |-> [fact |-> Null, isLoading |-> TRUE, error |-> Null],
           start |-> [fact |-> Null, isLoading |-> TRUE, error |-> Null,
                      concurrent |-> {}, captured |-> TRUE],
           preInflight |-> {}]

NoSettlement == [any |-> FALSE, result |-> Returned(<<>>)]

\* variant: useState<boolean>(false)
Init_NotLoading ==
  /\ fact = Null
  /\ isLoading = FALSE
  /\ error = Null
  /\ view = [fact |-> Null, isLoading |-> FALSE, error |-> Null]
  /\ mounted = FALSE
  /\ inflight = <<>>
  /\ invoked = 0
  /\ last = NoStep
  /\ requests = <<>>
  /\ apiKey = Str(<<"k">>)
  /\ startup = "running"
  /\ lastSettled = NoSettlement
  /\ pending = <<>>

\* the first render of App, the key being set
Init ==
  /\ fact = Null
  /\ isLoading = TRUE
  /\ error = Null
  /\ view = [fact |-> Null, isLoading |-> TRUE, error |-> Null]
  /\ mounted = FALSE
  /\ inflight = <<>>
  /\ invoked = 0
  /\ last = NoStep
  /\ requests = <<>>
  /\ apiKey = Str(<<"k">>)
  /\ startup = "running"
  /\ lastSettled = NoSettlement
  /\ pending = <<>>

\* the value of the state variables while App has not been rendered
Uncreated == "uncreated"

\* before any module is evaluated, whatever the environment holds
InitBoot ==
  /\ apiKey \in ApiKeys
  /\ startup = "load"
  /\ fact = Uncreated
  /\ isLoading = Uncreated
  /\ error = Uncreated
  /\ view = Uncreated
  /\ mounted = FALSE
  /\ inflight = <<>>
  /\ invoked = 0
  /\ last = NoStep
  /\ requests = <<>>
  /\ lastSettled = NoSettlement
  /\ pending = <<>>

\* the modules are evaluated: the provider module throws without a key,
\* otherwise the client is constructed and App is rendered
Load ==
  /\ startup = "load"
  /\ startup' = ModuleLoad(apiKey)
  /\ IF ModuleLoad(apiKey) = "running"
     THEN /\ fact' = Null
          /\ isLoading' = TRUE
          /\ error' = Null
          /\ view' = [fact |-> Null, isLoading |-> TRUE, error |-> Null]
     ELSE UNCHANGED <<fact, isLoading, error, view>>
  /\ UNCHANGED <<mounted, inflight, invoked, last, requests, apiKey,
                 lastSettled, pending>>

Step(op, id, resp) ==
  [op |-> op, call |-> id, resp |-> resp, result |-> generatePhysicsFact(resp),
   pre |-> cur, start |-> IF op = "settle" THEN inflight[id] ELSE Found,
   preInflight |-> InFlight]

\* one invocation of handleGenerateFact by the closure of the committed render
Invoke(op) ==
  LET n == StartState(cur, Captured(view)) IN
  /\ startup = "running"
  /\ fact' = n.fact
  /\ isLoading' = n.isLoading
  /\ error' = n.error
  /\ invoked' = invoked + 1
  /\ inflight' = [i \in InFlight \cup {invoked + 1} |->
                     IF i = invoked + 1 THEN Found ELSE inflight[i]]
  /\ last' = Step(op, invoked + 1, Fulfil(Null))
  /\ requests' = RequestsAfterStart(requests)
  /\ UNCHANGED <<env, lastSettled, pending>>

\* useEffect(() => { handleGenerateFact(); }, [])
Mount ==
  /\ startup = "running"
  /\ ~mounted
  /\ mounted' = TRUE
  /\ Invoke("mount")
  /\ view' = view

\* onClick={handleGenerateFact} of the enabled button; React flushes the
\* updates of a click before the event ends
Click ==
  /\ startup = "running"
  /\ mounted
  /\ ~ButtonDisabled(view)
  /\ invoked < MaxRefresh
  /\ Invoke("click")
  /\ view' = StartState(cur, Captured(view))
  /\ UNCHANGED mounted

\* refresh() by a caller other than the mount effect and the button
Refresh ==
  /\ startup = "running"
  /\ mounted
  /\ invoked < MaxRefresh
  /\ Invoke("refresh")
  /\ UNCHANGED <<view, mounted>>

\* the awaited call of invocation id settles; the setState calls of the
\* continuation are batched
Settle(id, resp) ==
  LET n == SettleState(cur, generatePhysicsFact(resp)) IN
  /\ id \in InFlight
  /\ fact' = n.fact
  /\ isLoading' = n.isLoading
  /\ error' = n.error
  /\ inflight' = [i \in InFlight \ {id} |-> inflight[i]]
  /\ last' = Step("settle", id, resp)
  /\ requests' = RequestsAfterSettle(requests, generatePhysicsFact(resp))
  /\ lastSettled' = [any |-> TRUE, result |-> generatePhysicsFact(resp)]
  /\ pending' = IntermediateRenders(cur, generatePhysicsFact(resp))
  /\ UNCHANGED <<view, mounted, invoked, env>>

\* React commits the batched updates
Render ==
  /\ startup = "running"
  /\ (view # cur \/ pending # <<>>)
  /\ view' = IF pending # <<>> THEN Head(pending) ELSE cur
  /\ pending' = IF pending # <<>> THEN Tail(pending) ELSE <<>>
  /\ last' = [last EXCEPT !.op = "render"]
  /\ UNCHANGED <<fact, isLoading, error, mounted, inflight, invoked, requests,
                 env, lastSettled>>

SettleSome == \E id \in InFlight, resp \in Responses : Settle(id, resp)

\* the application: refresh() only from the mount effect and the button
Next == Mount \/ Click \/ SettleSome \/ Render

Spec == Init /\ [][Next]_vars

\* the controller with an unconstrained caller of refresh()
NextOpen == Mount \/ Click \/ Refresh \/ SettleSome \/ Render

SpecOpen == Init /\ [][NextOpen]_vars

\* every issued call settles, the effect runs, React commits
Fairness == WF_vars(Mount) /\ WF_vars(SettleSome) /\ WF_vars(Render)

SpecFair == Spec /\ Fairness

\* the application from process start, with or without the key
NextBoot == Load \/ Mount \/ Click \/ SettleSome \/ Render

SpecBoot == InitBoot /\ [][NextBoot]_vars

TypeOK ==
  /\ isLoading \in BOOLEAN
  /\ mounted \in BOOLEAN
  /\ invoked \in 0..MaxRefresh
  /\ InFlight \subseteq 1..invoked

\* ------------------------------------------------------------- claims
ButtonEnabled == ~ButtonDisabled(view)

\* the call of the first invocation (the mount effect's) has settled
FirstSettled == invoked >= 1 /\ 1 \notin InFlight

\* C1 (as stated; checked under SpecOpen): whatever the sequence of refresh()
\* invocations and settlements, fact and error are never both non-null.
C1_MutuallyExclusive == fact.isNull \/ error.isNull

\* C2 (as stated): isLoading is true exactly when a provider call issued by
\* refresh() has been started and has not yet settled.
C2_LoadingIffInFlight == isLoading <=> (InFlight # {})

\* C2 (amended): isLoading is true exactly when a provider call is in flight
\* or the mount effect has not yet made the first invocation.
C2_LoadingBracket == isLoading <=> (InFlight # {} \/ ~mounted)

C2_Witness ==
  /\ last.op = "click"
  /\ ~last.pre.isLoading
  /\ isLoading
  /\ InFlight # {}

\* C3: with refresh() invoked only by the mount effect and by the enabled
\* button, at most one call is in flight, and no invocation starts while a
\* call is in flight.
C3_AtMostOneInFlight ==
  /\ Cardinality(InFlight) <= 1
  /\ (last.op \in {"mount", "click"}) => (last.preInflight = {})

C3_Witness ==
  /\ last.op = "click"
  /\ invoked >= 2
  /\ Cardinality(InFlight) = 1

C5_ScenarioC ==
  /\ (last.op = "click" /\ ~last.pre.fact.isNull /\ last.pre.error.isNull) =>
       (fact = last.pre.fact /\ error = Null /\ ~isCardLoading(view))
  /\ (last.op = "settle" /\ last.result.ok
        /\ ~last.start.fact.isNull /\ last.start.error.isNull) =>
       (fact = Str(last.result.value) /\ error = Null)

\* C6: right after a call settles with success returning t: fact = t,
\* error = null, isLoading = false, whatever the invocation found.
C6_SuccessSettlement ==
  (last.op = "settle" /\ last.result.ok) =>
    (fact = Str(last.result.value) /\ error = Null /\ ~isLoading)

C6_Witness ==
  /\ last.op = "settle"
  /\ last.result.ok
  /\ Truthy(last.start.error)
  /\ Truthy(fact)

\* C7: right after a call settles with a failure carrying message m:
\* error = m, fact = null, isLoading = false, whatever fact held before.
C7_FailureSettlement ==
  (last.op = "settle" /\ ~last.result.ok) =>
    (error = Str(last.result.thrown.message) /\ fact = Null /\ ~isLoading)

C7_Witness ==
  /\ last.op = "settle"
  /\ ~last.result.ok
  /\ Truthy(last.pre.fact)
  /\ fact = Null

\* C8: if every issued call settles, every state with isLoading true is
\* followed by a state with isLoading false and the button enabled.
C8_LoadingEnds == isLoading ~> (~isLoading /\ ButtonEnabled)

C8_Witness ==
  /\ last.op = "render"
  /\ ~last.result.ok
  /\ ~isLoading
  /\ ButtonEnabled

\* C9: no terminal state: from each content state, if every issued call
\* settles, the button is eventually enabled again, and a disabled button
\* with no call in flight does not stay disabled.
C9_NoTerminalState ==
  /\ (FactDisplay(view) = "spinner") ~> ButtonEnabled
  /\ (FactDisplay(view) = "fact") ~> ButtonEnabled
  /\ (FactDisplay(view) = "error") ~> ButtonEnabled
  /\ (~ButtonEnabled /\ InFlight = {}) ~> ButtonEnabled
  /\ []<>ButtonEnabled

C9_Witness ==
  /\ FactDisplay(view) = "error"
  /\ ButtonEnabled
  /\ invoked >= 2

\* C10: a response whose text is absent or empty makes generatePhysicsFact
\* fail; nothing, and in particular not the empty string, is stored as a fact.
C10_EmptyResponseFails ==
  (last.op = "settle" /\ last.resp.settled = "fulfilled"
     /\ (last.resp.text.isNull \/ last.resp.text.s = <<>>)) =>
    (~last.result.ok /\ fact = Null /\ ~error.isNull)

C10_Witness ==
  /\ last.op = "settle"
  /\ last.resp = Fulfil(Str(<<>>))
  /\ ~last.result.ok

\* r is s without its leading and trailing whitespace, the rest unchanged
IsTrimOf(r, s) ==
  /\ \E i \in 0..Len(s), j \in 0..Len(s) :
       /\ i + Len(r) + j = Len(s)
       /\ \A k \in 1..Len(r) : r[k] = s[i + k]
       /\ \A k \in 1..i : s[k] \in WhiteSpace
       /\ \A k \in (Len(s) - j + 1)..Len(s) : s[k] \in WhiteSpace
  /\ (r # <<>>) => (r[1] \notin WhiteSpace /\ r[Len(r)] \notin WhiteSpace)

\* C11: for a non-empty response text s the provider returns s without its
\* leading and trailing whitespace and otherwise unchanged; the returned text
\* has no leading or trailing whitespace and trimming it again changes nothing.
C11_TrimmedText ==
  (last.op = "settle" /\ last.resp.settled = "fulfilled"
     /\ ~last.resp.text.isNull /\ last.resp.text.s # <<>>) =>
    /\ last.result.ok
    /\ IsTrimOf(last.result.value, last.resp.text.s)
    /\ Trim(last.result.value) = last.result.value
    /\ fact = Str(last.result.value)

C11_Witness ==
  /\ last.op = "settle"
  /\ last.resp = Fulfil(Str(<<" ", "a", "\n">>))
  /\ fact = Str(<<"a">>)

\* C12: when the underlying call fails with an Error of message m the
\* provider fails with "Failed to generate fact from AI service: " followed
\* by m, and the controller ends with error = that message, fact = null,
\* isLoading = false.
C12_WrappedFailure ==
  (last.op = "settle" /\ last.resp.settled = "rejected"
     /\ last.resp.thrown.isError) =>
    /\ ~last.result.ok
    /\ last.result.thrown.isError
    /\ last.result.thrown.message =
         <<"Failed to generate fact from AI service: ">> \o last.resp.thrown.message
    /\ error = Str(<<"Failed to generate fact from AI service: ">>
                     \o last.resp.thrown.message)
    /\ fact = Null
    /\ ~isLoading

C12_Witness ==
  /\ last.op = "settle"
  /\ last.resp = Reject(ErrorOf(<<"timeout">>))
  /\ error = Str(<<"Failed to generate fact from AI service: ", "timeout">>)

\* the response makes generatePhysicsFact raise a failure
FailureRaised(resp) ==
  \/ resp.settled = "rejected"
  \/ resp.text.isNull
  \/ resp.text.s = <<>>

\* the value first thrown inside generatePhysicsFact for that response
OriginalFailure(resp) ==
  IF resp.settled = "rejected" THEN resp.thrown ELSE ErrorOf(NoContentMsg)

\* C13 (as stated): every failure raised in the provider reaches the
\* controller as a failure, and error holds the original failure's message
\* unchanged.
C13_MessageUnchanged ==
  (last.op = "settle" /\ FailureRaised(last.resp)) =>
    /\ ~last.result.ok
    /\ error = Str(OriginalFailure(last.resp).message)

\* C13 (amended): every failure raised in the provider reaches the controller
\* as a failure; error holds the original message after the prefix "Failed to
\* generate fact from AI service: ", or the provider's generic message when
\* the thrown value is not an Error.
C13_FailurePropagates ==
  (last.op = "settle" /\ FailureRaised(last.resp)) =>
    /\ ~last.result.ok
    /\ fact = Null
    /\ IF OriginalFailure(last.resp).isError
       THEN error = Str(<<"Failed to generate fact from AI service: ">>
                          \o OriginalFailure(last.resp).message)
       ELSE error = Str(<<"An unknown error occurred while communicating with the AI service.">>)

C13_Witness ==
  /\ last.op = "settle"
  /\ last.resp = Fulfil(Null)
  /\ error = Str(<<"Failed to generate fact from AI service: ",
                   "No content was returned from the API.">>)

\* C14: without the credential startup fails; then no refresh() is invoked,
\* no call is issued and no controller state is created or displayed.
C14_NoKeyNoStart ==
  /\ (startup # "load" /\ apiKey = Null) => (startup = "failed")
  /\ (startup = "failed") =>
       /\ fact = Uncreated /\ isLoading = Uncreated /\ error = Uncreated
       /\ view = Uncreated
       /\ ~mounted /\ invoked = 0 /\ InFlight = {} /\ requests = <<>>

C14_Witness ==
  /\ startup = "failed"
  /\ apiKey = Null

\* a step that invokes refresh() is the mount effect's, once and first, or a
\* click on the enabled button
InvokedByMountThenClicks ==
  /\ (invoked' # invoked) =>
       (/\ invoked' = invoked + 1
        /\ IF invoked = 0
           THEN ~mounted /\ mounted' /\ last'.op = "mount"
           ELSE mounted /\ last'.op = "click" /\ ~ButtonDisabled(view))
  /\ (mounted' # mounted) => (invoked = 0 /\ invoked' = 1)

\* C15: the controller starts with fact = null, isLoading = true, error =
\* null; the first invocation of refresh() is the mount effect's, made once
\* and without a click; every later invocation is one button activation.
C15_StartAndTriggers ==
  /\ (fact = Null /\ isLoading = TRUE /\ error = Null /\ invoked = 0 /\ ~mounted)
  /\ [][InvokedByMountThenClicks]_vars

C15_Witness ==
  /\ last.op = "click"
  /\ last.call = 2
  /\ invoked = 2

\* C16: every invocation of refresh() issues exactly one call, always with
\* the same instruction and model, and nothing retries: the calls issued
\* equal the invocations at every point, also after a failure.
C16_OneCallPerRefresh ==
  /\ Len(requests) = invoked
  /\ \A i \in 1..Len(requests) :
       /\ requests[i].model = "gemini-2.5-flash-preview-04-17"
       /\ requests[i].contents = PROMPT

C16_Witness ==
  /\ last.op = "settle"
  /\ ~last.result.ok
  /\ invoked >= 2
  /\ Len(requests) = 2

\* C17 (as stated): the content area shows the spinner when isCardLoading,
\* otherwise the error when error holds a message, otherwise the fact, and
\* when it shows the fact, fact is a non-null, non-empty text.
C17_NeverBlank ==
  /\ FactDisplay(view) \in {"spinner", "error", "fact"}
  /\ (FactDisplay(view) = "spinner") <=> isCardLoading(view)
  /\ (FactDisplay(view) = "error") <=> (~isCardLoading(view) /\ Truthy(view.error))
  /\ (FactDisplay(view) = "fact") => (~view.fact.isNull /\ view.fact.s # <<>>)

\* C18: the rendered button is disabled and labelled "Summoning a Fact..."
\* exactly when isLoading is true, enabled and labelled "Reveal New Fact"
\* exactly when it is false; a click invokes refresh() only when isLoading is
\* false.
C18_ButtonFollowsLoading ==
  /\ ButtonDisabled(view) <=> view.isLoading
  /\ (ButtonLabel(view) = "Summoning a Fact...") <=> view.isLoading
  /\ (ButtonLabel(view) = "Reveal New Fact") <=> ~view.isLoading
  /\ (last.op = "click") => (~last.pre.isLoading /\ ~last.start.isLoading)

C18_Witness ==
  /\ last.op = "click"
  /\ ButtonDisabled(view)
  /\ ButtonLabel(view) = "Summoning a Fact..."
  /\ invoked >= 2

\* the call that settled overlapped another call
Overlapped == last.start.concurrent # {} \/ last.call < invoked

\* C19 (as stated; checked under SpecOpen): after two overlapping calls have
\* both settled, fact and error are what the last settlement alone produces.
C19_LastSettlementWins ==
  (last.op \in {"settle", "render"} /\ InFlight = {} /\ Overlapped) =>
    IF last.result.ok
    THEN fact = Str(last.result.value) /\ error = Null
    ELSE fact = Null /\ error = Str(last.result.thrown.message)

\* C20: with the first request completed, no call in flight and isLoading
\* false, exactly one of fact and error is non-null.
C20_ExactlyOneAtRest ==
  (FirstSettled /\ InFlight = {} /\ ~isLoading) =>
    (fact.isNull <=> ~error.isNull)

C20_Witness ==
  /\ last.op = "settle"
  /\ ~last.result.ok
  /\ ~last.pre.fact.isNull
  /\ InFlight = {}
  /\ ~error.isNull

\* C21: the start step of refresh() sets isLoading true and error null and
\* leaves fact as it found it.
C21_StartStep ==
  (last.op \in {"mount", "click"}) =>
    (fact = last.pre.fact /\ isLoading = TRUE /\ error = Null)

C21_Witness ==
  /\ last.op = "click"
  /\ Truthy(last.pre.fact)
  /\ ~last.pre.isLoading
  /\ fact = last.pre.fact

\* C22: error is non-null only if the most recently settled request failed
\* and refresh() has not been invoked since; from an invocation to the next
\* settlement error is null.
C22_ErrorOnlyAfterFailure ==
  /\ (~error.isNull) =>
       /\ lastSettled.any
       /\ ~lastSettled.result.ok
       /\ last.op \in {"settle", "render"}
       /\ error = Str(lastSettled.result.thrown.message)
  /\ (last.op \in {"mount", "click"} \/ InFlight # {}) => (error = Null)

C22_Witness ==
  /\ last.op = "click"
  /\ ~last.pre.error.isNull
  /\ error = Null
  /\ ~lastSettled.result.ok

\* C23: fact is null until a call has settled with success; when non-null it
\* is the text of the most recent settlement, which was a success; a failure
\* clears it and nothing else changes it.
C23_FactIsLastSuccess ==
  fact = IF lastSettled.any /\ lastSettled.result.ok
         THEN Str(lastSettled.result.value)
         ELSE Null

C23_Witness ==
  /\ last.op = "settle"
  /\ last.result.ok
  /\ Truthy(last.pre.fact)
  /\ Truthy(fact)
  /\ fact # last.pre.fact

\* C24: the display never shows a settlement half applied: what is rendered
\* is the current state, or the state before the settlement not yet rendered;
\* never a new error beside the old fact, never a new fact or error while the
\* rendered isLoading is still true.
C24_SettlementAtomic ==
  /\ view = cur \/ (last.op = "settle" /\ view = last.pre)
  /\ ~(~view.fact.isNull /\ ~view.error.isNull)
  /\ view.isLoading => (view.error = Null /\ view.fact = last.start.fact)

C24_Witness ==
  /\ last.op = "render"
  /\ ~last.result.ok
  /\ Truthy(last.pre.fact)
  /\ view = cur
  /\ FactDisplay(view) = "error"

\* a step keeps isLoading true unless it is a settlement, and while a call is
\* in flight only a settlement can happen next to the state
OnlySettlementEndsLoading ==
  /\ (isLoading = TRUE /\ isLoading' = FALSE) =>
       (last'.op = "settle" /\ last'.call \in InFlight /\ last'.call \notin InFlight')
  /\ (InFlight # {} /\ InFlight' = InFlight) =>
       (isLoading' = TRUE /\ ButtonDisabled(view') /\ invoked' = invoked)

\* C25: no cancellation and no timeout: only a settlement sets isLoading
\* false; while a call is unsettled isLoading stays true and the button stays
\* disabled, so no click invokes refresh().
C25_NoCancellation ==
  /\ [](InFlight # {} => (isLoading = TRUE /\ ButtonDisabled(view)))
  /\ [][OnlySettlementEndsLoading]_vars

C25_Witness ==
  /\ last.op = "click"
  /\ InFlight = {2}
  /\ isLoading = TRUE
  /\ ButtonDisabled(view)

\* C26: every failure of generatePhysicsFact is an Error whose message is the
\* prefix followed by the underlying message, or the provider's generic
\* message; error is never the empty string nor the controller's fallback.
C26_ProviderMessages ==
  /\ (last.op = "settle" /\ ~last.result.ok) =>
       /\ last.result.thrown.isError
       /\ \/ /\ OriginalFailure(last.resp).isError
             /\ last.result.thrown.message =
                  <<"Failed to generate fact from AI service: ">>
                    \o OriginalFailure(last.resp).message
          \/ /\ ~OriginalFailure(last.resp).isError
             /\ last.result.thrown.message =
                  <<"An unknown error occurred while communicating with the AI service.">>
  /\ (~error.isNull) =>
       /\ error.s # <<>>
       /\ error.s # <<"An unknown error occurred.">>
       /\ Head(error.s) \in {"Failed to generate fact from AI service: ",
                             "An unknown error occurred while communicating with the AI service."}

C26_Witness ==
  /\ last.op = "settle"
  /\ last.resp = Reject(NonError)
  /\ error = Str(<<"An unknown error occurred while communicating with the AI service.">>)

\* C27 (as stated): every text generatePhysicsFact returns as a success, and
\* so every non-null fact, is a non-empty string, whatever the payload; !fact
\* agrees with fact = null.
C27_FactNeverEmpty ==
  /\ (last.op = "settle" /\ last.result.ok) => (last.result.value # <<>>)
  /\ (~fact.isNull) => (fact.s # <<>>)
  /\ (~Truthy(fact)) <=> fact.isNull

\* the states an earlier history may have left behind
Histories ==
  [fact : {Null} \cup {Str(t) : t \in SeqsUpTo(Chars, MaxLen)},
   isLoading : BOOLEAN,
   error : {Null} \cup {Str(FailedPrefix \o m) : m \in UnderlyingMessages \cup {NoContentMsg}}
             \cup {Str(UnknownServiceMsg)}]

\* C28: the state after the settlement of a refresh() that overlapped no
\* other call depends only on that call's outcome: started from any earlier
\* state, with either captured isLoading, the same outcome ends in the state
\* this run ended in.
C28_OutcomeDeterminesState ==
  (last.op = "settle" /\ last.start.concurrent = {} /\ InFlight = {}) =>
    \A h \in Histories, c \in BOOLEAN :
      SettleState(StartState(h, c), last.result) = cur

C28_Witness ==
  /\ last.op = "settle"
  /\ last.call = 3
  /\ last.result.ok
  /\ Truthy(last.start.error)
  /\ fact = Str(last.result.value)
  /\ error = Null

\* C29: at every invocation by the mount effect or a click the isLoading the
\* closure captured is the current isLoading, so isLoading is true while the
\* call of that invocation is in flight.
C29_ClosureIsCurrent ==
  /\ (last.op \in {"mount", "click"}) =>
       (last.start.captured = last.start.isLoading /\ isLoading = TRUE)
  /\ \A id \in InFlight :
       (inflight[id].captured = inflight[id].isLoading /\ isLoading = TRUE)

C29_Witness ==
  /\ last.op = "click"
  /\ last.start.captured = FALSE
  /\ last.start.isLoading = FALSE
  /\ isLoading = TRUE
====
